---- MODULE Spec2Model ----
(***************************************************************************)
(* A model of src/src/Arduboy.cpp: the frame scheduler of ArduboyBase      *)
(* (setFrameRate, newFrame) and the drawing primitives that write the      *)
(* band-packed screen buffer sBuffer (drawPixel, getPixel, drawFastVLine,  *)
(* drawFastHLine, fillRect, fillScreen, fillTriangle, drawBitmap).         *)
(*                                                                         *)
(* Two specifications share the module.  SpecFrame runs the scheduler      *)
(* against a clock; SpecGfx applies one drawing call to a screen buffer.   *)
(***************************************************************************)
EXTENDS Integers, Sequences, FiniteSets, TLC

(***************************************************************************)
(* Integer widths of the AVR build.                                        *)
(***************************************************************************)
U8 == 256
U16 == 65536

\* C integer division and remainder truncate toward zero.
cdiv(a, b) ==
  IF (a >= 0) = (b > 0) \/ a = 0
    THEN (IF a >= 0 THEN a ELSE -a) \div (IF b >= 0 THEN b ELSE -b)
    ELSE -((IF a >= 0 THEN a ELSE -a) \div (IF b >= 0 THEN b ELSE -b))

abs(a) == IF a < 0 THEN -a ELSE a

max(a, b) == IF a > b THEN a ELSE b

min(a, b) == IF a < b THEN a ELSE b

\* Conversion of an int to uint8_t.
u8(a) == a % U8

(***************************************************************************)
(* Bounds of the model.                                                    *)
(***************************************************************************)
\* millis() is read up to this value.
MaxNow == 12

\* Frame rates passed to setFrameRate (1000/rate = 8 and 4 ms).
Rates == {125, 250}

\* The rate the constructor sets.
DefaultRate == 60

\* lastFrameStart and lastFrameDurationMs are not set by the constructor:
\* an object with static storage starts with zero, one with automatic
\* storage with whatever the memory held.
UninitLong == {0, 3}
UninitByte == {0, 200}

VARIABLES
  \* ---- frame scheduler (ArduboyBase members) ----
  frameRate,
  eachFrameMillis,
  frameCount,
  nextFrameStart,
  lastFrameStart,
  lastFrameDurationMs,
  post_render,
  \* the value millis() returns
  clock,
  \* the last newFrame() call: its 'now', its return value and the members
  \* as they were on entry
  nf,
  \* number of newFrame() calls that returned true
  accepted,
  \* true returns since the rate was last set (counted up to 2), and whether
  \* one of them came more than one frame period after nextFrameStart
  steady,
  overran,
  \* ---- screen ----
  \* the screen buffer: one byte per column and band of 8 rows
  sBuffer,
  \* whether the build defines PIXEL_SAFE_MODE
  pixelSafe,
  \* the last drawing call and its arguments
  call,
  \* the buffer as that call found it (as it left it, for fillScreen)
  pre,
  \* whether that call (or the last write()) wrote a byte outside sBuffer
  oob,
  \* ---- text (Arduboy members) ----
  cursor_x,
  cursor_y,
  textColor,
  textBackground,
  textSize,
  textWrap,
  \* the last write() call: its character and the cursor it found
  wr,
  \* only write() has been called since the last Arduboy::clear()
  sinceClear,
  \* number of write() calls since the last Arduboy::clear()
  written

schedVars == <<frameRate, eachFrameMillis, frameCount, nextFrameStart,
               lastFrameStart, lastFrameDurationMs, post_render, clock, nf,
               accepted, steady, overran>>

gfxVars == <<sBuffer, pixelSafe, call, pre, oob>>

textVars == <<cursor_x, cursor_y, textColor, textBackground, textSize,
              textWrap, wr, sinceClear, written>>

vars == <<schedVars, gfxVars, textVars>>


(***************************************************************************)
(* The screen: WIDTH x HEIGHT pixels, HEIGHT = 8 * BANDS, packed one byte  *)
(* per column and band.  The device is 128 x 64; the model is checked on a *)
(* smaller screen of the same layout, wide enough for two glyph cells.     *)
(***************************************************************************)
WIDTH == 12
BANDS == 2
HEIGHT == 8 * BANDS
BufLen == BANDS * WIDTH

BLACK == 0
WHITE == 1

InScreen(x, y) == x >= 0 /\ x < WIDTH /\ y >= 0 /\ y < HEIGHT

\* Bit k of a byte, and a byte from its bits.
bit(b, k) == (b \div (2 ^ k)) % 2

fromBits(F(_)) ==
  F(0) + 2 * F(1) + 4 * F(2) + 8 * F(3) + 16 * F(4) + 32 * F(5) + 64 * F(6)
  + 128 * F(7)

(***************************************************************************)
(* Writes to sBuffer.  A write is [idx, mask]: sBuffer[idx] |= mask,       *)
(* sBuffer[idx] &= ~mask or sBuffer[idx] ^= mask.  The writes of one call  *)
(* are all of one kind, so their order does not matter: a call is the set  *)
(* of its writes (a bitmap's writes carry the loop indices in n, so that   *)
(* two writes of one byte stay two).  A write whose idx is outside the     *)
(* buffer lands in other memory; oob records that it happened.             *)
(***************************************************************************)
OR == "|="
ANDNOT == "&= ~"
XOR == "^="

store(buf, W, kind) ==
  [buf |-> [i \in 0..(BufLen - 1) |->
              LET ws == {w \in W : w.idx = i}
              IN  IF ws = {}
                    THEN buf[i]
                    ELSE fromBits(LAMBDA k :
                           LET n == Cardinality({w \in ws :
                                                   bit(w.mask, k) = 1})
                           IN  IF n = 0 THEN bit(buf[i], k)
                               ELSE IF kind = OR THEN 1
                               ELSE IF kind = ANDNOT THEN 0
                               ELSE (bit(buf[i], k) + n) % 2)],
   oob |-> \E w \in W : w.idx \notin 0..(BufLen - 1)]

(***************************************************************************)
(* ArduboyBase::fillScreen                                                 *)
(***************************************************************************)
fillScreen(color) ==
  [i \in 0..(BufLen - 1) |-> IF color # 0 THEN U8 - 1 ELSE 0]

(***************************************************************************)
(* ArduboyBase::drawPixel, ArduboyBase::getPixel                           *)
(***************************************************************************)
\* The byte and bit drawPixel writes (lines 269-278).
pixelWrite(safe, x, y) ==
  IF safe /\ (x < 0 \/ x > (WIDTH - 1) \/ y < 0 \/ y > (HEIGHT - 1))
    THEN {}
    ELSE LET row == u8(y) \div 8
         IN  {[idx |-> (row * WIDTH) + u8(x), mask |-> 2 ^ (u8(y) % 8)]}

pixelKindToggle(color) == XOR

pixelKind(color) == IF color # 0 THEN OR ELSE ANDNOT

drawPixel(buf, safe, x, y, color) ==
  store(buf, pixelWrite(safe, x, y), pixelKind(color))

getPixel(buf, x, y) ==
  LET row == y \div 8
      bit_position == y % 8
  IN  bit(buf[(row * WIDTH) + x], bit_position)

(***************************************************************************)
(* ArduboyBase::drawFastVLine, ArduboyBase::fillRect                       *)
(***************************************************************************)
\* for (int a = max(0,y); a < min(end,HEIGHT); a++) drawPixel(x,a,color);
RECURSIVE vlineFrom(_, _, _, _)
vlineFrom(safe, x, a, stop) ==
  IF a < stop
    THEN pixelWrite(safe, x, a) \cup vlineFrom(safe, x, a + 1, stop)
    ELSE {}

vlineWrites(safe, x, y, h) ==
  vlineFrom(safe, x, max(0, y), min(y + h, HEIGHT))

drawFastVLine(buf, safe, x, y, h, color) ==
  store(buf, vlineWrites(safe, x, y, h), pixelKind(color))

\* for (int16_t i=x; i<x+w; i++) drawFastVLine(i, y, h, color);
RECURSIVE rectFrom(_, _, _, _, _)
rectFrom(safe, i, stop, y, h) ==
  IF i < stop
    THEN vlineWrites(safe, i, y, h) \cup rectFrom(safe, i + 1, stop, y, h)
    ELSE {}

fillRect(buf, safe, x, y, w, h, color) ==
  store(buf, rectFrom(safe, x, x + w, y, h), pixelKind(color))

(***************************************************************************)
(* ArduboyBase::drawFastHLine                                              *)
(***************************************************************************)
\* The clipping of x and of the uint8_t w (lines 486-494).
hlineClip(x, w) ==
  LET w1 == IF x < 0 THEN u8(w + x) ELSE w
      x1 == IF x < 0 THEN 0 ELSE x
  IN  [x |-> x1, w |-> IF x1 + w1 > WIDTH THEN u8(WIDTH - x1) ELSE w1]

\* The bytes a run writes: w bytes from pBuf on (lines 482-520).
hlineWrites(x, y, w, color) ==
  IF y < 0 \/ y >= HEIGHT
    THEN {}
    ELSE LET c == hlineClip(x, w)
             pBuf == ((y \div 8) * WIDTH) + c.x
             mask == 2 ^ (y % 8)
         IN  IF c.w <= 0 \/ color \notin {WHITE, BLACK}
               THEN {}
               ELSE {[idx |-> pBuf + k, mask |-> mask] : k \in 0..(c.w - 1)}

hlineKind(color) == IF color = WHITE THEN OR ELSE ANDNOT

drawFastHLine(buf, x, y, w, color) ==
  store(buf, hlineWrites(x, y, w, color), hlineKind(color))

(***************************************************************************)
(* ArduboyBase::fillTriangle                                               *)
(***************************************************************************)
\* The sorting step (lines 609-614).  Each 'if' governs only the swap of
\* the y's; the swap of the x's that shares its line runs always.
sortVertices(x0, y0, x1, y1, x2, y2) ==
  LET s1 == [x0 |-> x1, x1 |-> x0, x2 |-> x2,
             y0 |-> IF y0 > y1 THEN y1 ELSE y0,
             y1 |-> IF y0 > y1 THEN y0 ELSE y1,
             y2 |-> y2]
      s2 == [x0 |-> s1.x0, x1 |-> s1.x2, x2 |-> s1.x1,
             y0 |-> s1.y0,
             y1 |-> IF s1.y1 > s1.y2 THEN s1.y2 ELSE s1.y1,
             y2 |-> IF s1.y1 > s1.y2 THEN s1.y1 ELSE s1.y2]
  IN  [x0 |-> s2.x1, x1 |-> s2.x0, x2 |-> s2.x2,
       y0 |-> IF s2.y0 > s2.y1 THEN s2.y1 ELSE s2.y0,
       y1 |-> IF s2.y0 > s2.y1 THEN s2.y0 ELSE s2.y1,
       y2 |-> s2.y2]

degenerateSpanFirstTwo(x0, x1, x2) ==
  [a |-> IF x1 < x0 THEN x1 ELSE x0, b |-> IF x1 > x0 THEN x1 ELSE x0]

\* The all-on-one-line case (lines 618-626): the run's first and last x.
degenerateSpan(x0, x1, x2) ==
  LET a1 == IF x1 < x0 THEN x1 ELSE x0
      b1 == IF x1 < x0 THEN x0 ELSE IF x1 > x0 THEN x1 ELSE x0
  IN  [a |-> IF x2 < a1 THEN x2 ELSE a1,
       b |-> IF x2 < a1 THEN b1 ELSE IF x2 > b1 THEN x2 ELSE b1]

\* if (a > b) swap(a,b); drawFastHLine(a, y, b-a+1, color);
scanline(a, b, y, color) ==
  LET lo == IF a > b THEN b ELSE a
      hi == IF a > b THEN a ELSE b
  IN  hlineWrites(lo, y, u8(hi - lo + 1), color)

\* The loop over the upper part (lines 652-663).
RECURSIVE triUpper(_, _, _, _, _, _)
triUpper(v, y, last, sa, sb, color) ==
  IF y <= last
    THEN scanline(v.x0 + cdiv(sa, v.y1 - v.y0),
                  v.x0 + cdiv(sb, v.y2 - v.y0), y, color)
         \cup triUpper(v, y + 1, last, sa + (v.x1 - v.x0),
                       sb + (v.x2 - v.x0), color)
    ELSE {}

\* The loop over the lower part (lines 670-681).
RECURSIVE triLower(_, _, _, _, _)
triLower(v, y, sa, sb, color) ==
  IF y <= v.y2
    THEN scanline(v.x1 + cdiv(sa, v.y2 - v.y1),
                  v.x0 + cdiv(sb, v.y2 - v.y0), y, color)
         \cup triLower(v, y + 1, sa + (v.x2 - v.x1), sb + (v.x2 - v.x0),
                       color)
    ELSE {}

triangleWrites(x0, y0, x1, y1, x2, y2, color) ==
  LET v == sortVertices(x0, y0, x1, y1, x2, y2)
  IN  IF v.y0 = v.y2
        THEN LET s == degenerateSpan(v.x0, v.x1, v.x2)
             IN  hlineWrites(s.a, v.y0, u8(s.b - s.a + 1), color)
        ELSE LET last == IF v.y1 = v.y2 THEN v.y1 ELSE v.y1 - 1
                 \* y as the first loop leaves it
                 y == IF v.y0 <= last THEN last + 1 ELSE v.y0
             IN  triUpper(v, v.y0, last, 0, 0, color)
                 \cup triLower(v, y, (v.x2 - v.x1) * (y - v.y1),
                               (v.x2 - v.x0) * (y - v.y0), color)

fillTriangle(buf, x0, y0, x1, y1, x2, y2, color) ==
  store(buf, triangleWrites(x0, y0, x1, y1, x2, y2, color), hlineKind(color))

(***************************************************************************)
(* ArduboyBase::drawBitmap                                                 *)
(***************************************************************************)
bitmapOffsetUnsigned(y) == abs(y) % 8

\* yOffset (lines 691-696).
bitmapOffset(y) ==
  IF y < 0 THEN 8 - (abs(y) % 8) ELSE abs(y) % 8

\* sRow (lines 692-696).
bitmapRow(y) ==
  IF y < 0 THEN cdiv(y, 8) - 1 ELSE cdiv(y, 8)

\* The loop over the columns of one bitmap row (lines 705-747).
RECURSIVE bitmapCols(_, _, _, _, _, _, _)
bitmapCols(x, bitmap, w, yOffset, a, bRow, iCol) ==
  IF iCol >= w \/ (iCol + x) > (WIDTH - 1)
    THEN {}
    ELSE LET src == bitmap[(a * w) + iCol + 1]
             upper == IF (iCol + x) >= 0 /\ bRow >= 0
                        THEN {[idx |-> (bRow * WIDTH) + x + iCol,
                               mask |-> u8(src * (2 ^ yOffset)),
                               n |-> <<a, iCol, 0>>]}
                        ELSE {}
             lower == IF /\ (iCol + x) >= 0
                         /\ yOffset # 0
                         /\ bRow < (HEIGHT \div 8) - 1
                         /\ bRow > -2
                        THEN {[idx |-> ((bRow + 1) * WIDTH) + x + iCol,
                               mask |-> src \div (2 ^ (8 - yOffset)),
                               n |-> <<a, iCol, 1>>]}
                        ELSE {}
         IN  upper \cup lower
             \cup bitmapCols(x, bitmap, w, yOffset, a, bRow, iCol + 1)

\* The loop over the bitmap's rows of bytes (lines 700-749).
RECURSIVE bitmapRows(_, _, _, _, _, _, _)
bitmapRows(x, bitmap, w, sRow, yOffset, a, rows) ==
  IF a >= rows \/ (sRow + a) > (HEIGHT \div 8) - 1
    THEN {}
    ELSE (IF (sRow + a) > -2
            THEN bitmapCols(x, bitmap, w, yOffset, a, sRow + a, 0)
            ELSE {})
         \cup bitmapRows(x, bitmap, w, sRow, yOffset, a + 1, rows)

bitmapWrites(x, y, bitmap, w, h) ==
  IF x + w < 0 \/ x > WIDTH - 1 \/ y + h < 0 \/ y > HEIGHT - 1
    THEN {}
    ELSE bitmapRows(x, bitmap, w, bitmapRow(y), bitmapOffset(y), 0,
                    (h \div 8) + (IF h % 8 # 0 THEN 1 ELSE 0))

\* |=, &= ~ or ^= by the colour (lines 712-726).
bitmapKind(color) ==
  IF color = WHITE THEN OR ELSE IF color = BLACK THEN ANDNOT ELSE XOR

drawBitmap(buf, x, y, bitmap, w, h, color) ==
  store(buf, bitmapWrites(x, y, bitmap, w, h), bitmapKind(color))

(***************************************************************************)
(* ArduboyBase::drawChar                                                   *)
(***************************************************************************)
\* The font table: five column bytes for each character code.  Two of its
\* entries, 'A' and '.', are enough here.
Font == (65 :> <<124, 18, 17, 18, 124>>) @@ (46 :> <<0, 96, 96, 0, 0>>)

\* line for column i of character c (lines 785-789).
glyphLine(c, i) == IF i = 5 THEN 0 ELSE Font[c][i + 1]

\* if (draw_color || draw_background), draw_background = bg != color
\* (lines 775, 795).
drawsCell(draw_color, color, bg) == draw_color # 0 \/ bg # color

\* The drawPixel calls of one call, numbered in the order of the loops
\* (lines 783-804).
charWrites(safe, x, y, c, color, bg, size) ==
  IF \/ x >= WIDTH
     \/ y >= HEIGHT
     \/ (x + (5 * size) - 1) < 0
     \/ (y + (8 * size) - 1) < 0
    THEN {}
    ELSE UNION {
           LET draw_color == IF bit(glyphLine(c, ij[1]), ij[2]) = 1
                               THEN color ELSE bg
           IN  IF drawsCell(draw_color, color, bg)
                 THEN UNION {
                        {[idx |-> w.idx, mask |-> w.mask,
                          kind |-> pixelKind(draw_color),
                          n |-> (((((ij[1] * 8) + ij[2]) * size) + ab[1])
                                 * size) + ab[2]] :
                           w \in pixelWrite(safe,
                                            x + (ij[1] * size) + ab[1],
                                            y + (ij[2] * size) + ab[2])} :
                        ab \in (0..(size - 1)) \X (0..(size - 1))}
                 ELSE {} :
           ij \in (0..5) \X (0..7)}

\* Writes that set or clear one bit each, applied in their order n: the last
\* write of a bit decides it.  (Without the bounds test, two pixels of one
\* glyph can share a bit.)
storeInOrder(buf, W) ==
  [buf |-> [i \in 0..(BufLen - 1) |->
              LET ws == {w \in W : w.idx = i}
              IN  IF ws = {}
                    THEN buf[i]
                    ELSE fromBits(LAMBDA k :
                           LET bs == {w \in ws : bit(w.mask, k) = 1}
                           IN  IF bs = {} THEN bit(buf[i], k)
                               ELSE LET last == CHOOSE w \in bs :
                                                  \A v \in bs : v.n <= w.n
                                    IN  IF last.kind = OR THEN 1 ELSE 0)],
   oob |-> \E w \in W : w.idx \notin 0..(BufLen - 1)]

drawChar(buf, safe, x, y, c, color, bg, size) ==
  storeInOrder(buf, charWrites(safe, x, y, c, color, bg, size))

NoCall == [called |-> FALSE, ret |-> FALSE, now |-> 0, each |-> 0,
           preNext |-> 0, preLast |-> 0, prePost |-> FALSE, preCount |-> 0,
           preDur |-> 0]

NoDraw == [op |-> "none", x |-> 0, y |-> 0, w |-> 0, h |-> 0, color |-> 0,
           x1 |-> 0, y1 |-> 0, x2 |-> 0, y2 |-> 0, bitmap |-> <<>>,
           rep |-> FALSE, c |-> 0, bg |-> 0, size |-> 0]

NoWrite == [called |-> FALSE, c |-> 0, x |-> 0, y |-> 0]

(***************************************************************************)
(* ArduboyBase::ArduboyBase                                                *)
(***************************************************************************)
Constructed ==
  /\ frameRate = DefaultRate
  /\ eachFrameMillis = u8(cdiv(1000, DefaultRate))
  /\ frameCount = 0
  /\ nextFrameStart = 0
  /\ post_render = FALSE
  /\ lastFrameStart \in UninitLong
  /\ lastFrameDurationMs \in UninitByte
  /\ clock = 0
  /\ nf = NoCall
  /\ accepted = 0
  /\ steady = 0
  /\ overran = FALSE

(***************************************************************************)
(* Arduboy::Arduboy                                                        *)
(***************************************************************************)
ConstructedText ==
  /\ cursor_x = 0
  /\ cursor_y = 0
  /\ textColor = 1
  /\ textBackground = 0
  /\ textSize = 1
  /\ textWrap = FALSE
  /\ wr = NoWrite
  /\ sinceClear = FALSE
  /\ written = 0

\* The static sBuffer starts zeroed.
InitFrame ==
  /\ Constructed
  /\ ConstructedText
  /\ sBuffer = fillScreen(BLACK)
  /\ pixelSafe \in BOOLEAN
  /\ call = NoDraw
  /\ pre = sBuffer
  /\ oob = FALSE

(***************************************************************************)
(* ArduboyBase::setFrameRate                                               *)
(***************************************************************************)
setFrameRate(rate) ==
  /\ frameRate' = rate
  /\ eachFrameMillis' = u8(cdiv(1000, rate))
  /\ steady' = 0
  /\ overran' = FALSE
  /\ UNCHANGED <<frameCount, nextFrameStart, lastFrameStart,
                 lastFrameDurationMs, post_render, clock, nf, accepted>>

(***************************************************************************)
(* Time passes: millis() never decreases.                                  *)
(***************************************************************************)
Tick ==
  /\ clock < MaxNow
  /\ clock' \in (clock + 1)..MaxNow
  /\ UNCHANGED <<frameRate, eachFrameMillis, frameCount, nextFrameStart,
                 lastFrameStart, lastFrameDurationMs, post_render, nf,
                 accepted, steady, overran>>

(***************************************************************************)
(* ArduboyBase::newFrame                                                   *)
(***************************************************************************)
scheduleNextNoClamp(last, each, now) == last + each

\* nextFrameStart as the pre-render step leaves it (lines 163-176).
scheduleNext(last, each, now) ==
  IF last + each < now THEN now ELSE last + each

\* The post-render step (lines 142-147).
postDuration(post, dur, now, last) ==
  IF post THEN u8(now - last) ELSE dur

postCountAlways(post, count) == (count + 1) % U16

postCount(post, count) ==
  IF post THEN (count + 1) % U16 ELSE count

\* The test that turns a call away (line 150).
notYet(now, next) == now < next

newFrame ==
  LET now == clock IN
  /\ lastFrameDurationMs' =
       postDuration(post_render, lastFrameDurationMs, now, lastFrameStart)
  /\ frameCount' = postCount(post_render, frameCount)
  /\ nf' = [called |-> TRUE, ret |-> ~notYet(now, nextFrameStart),
            now |-> now, each |-> eachFrameMillis,
            preNext |-> nextFrameStart, preLast |-> lastFrameStart,
            prePost |-> post_render, preCount |-> frameCount,
            preDur |-> lastFrameDurationMs]
  /\ IF notYet(now, nextFrameStart)
       THEN \* idle() when more than 1 ms remains, then return false
            /\ post_render' = FALSE
            /\ UNCHANGED <<nextFrameStart, lastFrameStart, accepted, steady,
                           overran>>
       ELSE /\ nextFrameStart' =
                 scheduleNext(lastFrameStart, eachFrameMillis, now)
            /\ lastFrameStart' = now
            /\ post_render' = TRUE
            /\ accepted' = accepted + 1
            /\ steady' = min(steady + 1, 2)
            /\ overran' = (overran \/ now > nextFrameStart + eachFrameMillis)
  /\ UNCHANGED <<frameRate, eachFrameMillis, clock>>

NextFrame ==
  \/ \E rate \in Rates : setFrameRate(rate) /\ UNCHANGED <<gfxVars, textVars>>
  \/ Tick /\ UNCHANGED <<gfxVars, textVars>>
  \/ newFrame /\ UNCHANGED <<gfxVars, textVars>>

SpecFrame == InitFrame /\ [][NextFrame]_vars

(***************************************************************************)
(* Drawing calls.  SpecGfx starts from a screen buffer drawn from          *)
(* Backgrounds and applies one drawing call to it; fillScreen starts over  *)
(* from a uniform buffer.                                                  *)
(***************************************************************************)
Colors == {BLACK, WHITE}
\* Any colour that is neither WHITE nor BLACK takes drawBitmap's ^= branch.
Modes == {BLACK, WHITE, 2}

\* Arguments of the calls.
PixelXs == -1..WIDTH
PixelYs == -1..HEIGHT
LineXs == -3..(WIDTH + 2)
LineYs == -1..HEIGHT
LineWs == 0..(WIDTH + 3)
RectXs == -2..(WIDTH + 1)
RectYs == -2..(HEIGHT + 1)
RectWs == {0, 1, 4}
RectHs == {0, 3, HEIGHT - 6}
TriXs == {0, 3, WIDTH - 1}
TriYs == {1, 8, HEIGHT - 1}
BitmapXs == -2..WIDTH
BitmapYs == -25..HEIGHT
Bitmaps ==
  { [w |-> 1, h |-> 8, data |-> <<165>>],
    [w |-> 3, h |-> 8, data |-> <<90, 1, 128>>],
    [w |-> 2, h |-> 16, data |-> <<1, 128, 60, 195>>],
    [w |-> 1, h |-> 24, data |-> <<129, 255, 102>>],
    [w |-> 2, h |-> 12, data |-> <<255, 36, 9, 6>>] }

\* A buffer that is not uniform.
Pattern == [i \in 0..(BufLen - 1) |-> ((i * 73) + 165) % U8]

Backgrounds == {fillScreen(BLACK), Pattern}

InitGfx ==
  /\ Constructed
  /\ ConstructedText
  /\ lastFrameStart = 0
  /\ lastFrameDurationMs = 0
  /\ sBuffer \in Backgrounds
  /\ pixelSafe \in BOOLEAN
  /\ call = NoDraw
  /\ pre = sBuffer
  /\ oob = FALSE

\* The call c has run and left memory m.
Drawn(c, m) ==
  /\ call' = c
  /\ pre' = sBuffer
  /\ sBuffer' = m.buf
  /\ oob' = m.oob
  /\ UNCHANGED <<pixelSafe, schedVars, textVars>>

\* No drawing call has run on the buffer since it was set up.
Fresh == call.op \in {"none", "fillScreen"}

\* fillScreen overwrites every byte: the buffer it found plays no part.
Call_fillScreen(color) ==
  /\ call' = [NoDraw EXCEPT !.op = "fillScreen"]
  /\ sBuffer' = fillScreen(color)
  /\ pre' = fillScreen(color)
  /\ oob' = FALSE
  /\ UNCHANGED <<pixelSafe, schedVars, textVars>>

Call_drawPixel ==
  /\ Fresh
  /\ \E x \in PixelXs, y \in PixelYs, color \in Colors :
       Drawn([NoDraw EXCEPT !.op = "drawPixel", !.x = x, !.y = y,
                            !.color = color],
             drawPixel(sBuffer, pixelSafe, x, y, color))

\* The same drawPixel call once more.
Call_drawPixelAgain ==
  /\ call.op = "drawPixel"
  /\ ~call.rep
  /\ Drawn([call EXCEPT !.rep = TRUE],
           drawPixel(sBuffer, pixelSafe, call.x, call.y, call.color))

Call_drawFastHLine ==
  /\ Fresh
  /\ \E x \in LineXs, y \in LineYs, w \in LineWs, color \in Colors :
       Drawn([NoDraw EXCEPT !.op = "drawFastHLine", !.x = x, !.y = y,
                            !.w = w, !.color = color],
             drawFastHLine(sBuffer, x, y, w, color))

Call_fillRect ==
  /\ Fresh
  /\ \E x \in RectXs, y \in RectYs, w \in RectWs, h \in RectHs,
        color \in Colors :
       Drawn([NoDraw EXCEPT !.op = "fillRect", !.x = x, !.y = y, !.w = w,
                            !.h = h, !.color = color],
             fillRect(sBuffer, pixelSafe, x, y, w, h, color))

Call_fillTriangle ==
  /\ Fresh
  /\ \E x0 \in TriXs, y0 \in TriYs, x1 \in TriXs, y1 \in TriYs,
        x2 \in TriXs, y2 \in TriYs, color \in Colors :
       Drawn([NoDraw EXCEPT !.op = "fillTriangle", !.x = x0, !.y = y0,
                            !.x1 = x1, !.y1 = y1, !.x2 = x2, !.y2 = y2,
                            !.color = color],
             fillTriangle(sBuffer, x0, y0, x1, y1, x2, y2, color))

Call_drawBitmap ==
  /\ Fresh
  /\ \E x \in BitmapXs, y \in BitmapYs, b \in Bitmaps, color \in Modes :
       Drawn([NoDraw EXCEPT !.op = "drawBitmap", !.x = x, !.y = y,
                            !.w = b.w, !.h = b.h, !.bitmap = b.data,
                            !.color = color],
             drawBitmap(sBuffer, x, y, b.data, b.w, b.h, color))

\* Arguments of drawChar.
CharXs == {-3, 0, 2, WIDTH - 4}
CharYs == {-5, 0, 3, HEIGHT - 6}
Glyphs == DOMAIN Font
Sizes == {1, 2}

Call_drawChar ==
  /\ Fresh
  /\ \E x \in CharXs, y \in CharYs, c \in Glyphs, color \in Colors,
        bg \in Colors, size \in Sizes :
       Drawn([NoDraw EXCEPT !.op = "drawChar", !.x = x, !.y = y, !.c = c,
                            !.color = color, !.bg = bg, !.size = size],
             drawChar(sBuffer, pixelSafe, x, y, c, color, bg, size))

NextGfx ==
  \/ \E color \in Modes : Call_fillScreen(color)
  \/ Call_drawPixel
  \/ Call_drawPixelAgain
  \/ Call_drawFastHLine
  \/ Call_fillRect
  \/ Call_fillTriangle
  \/ Call_drawBitmap
  \/ Call_drawChar

SpecGfx == InitGfx /\ [][NextGfx]_vars

(***************************************************************************)
(* Text.  SpecText sets the cursor, the size and the wrap flag and writes  *)
(* characters with the colours the constructor set.                        *)
(***************************************************************************)
\* The number of write() calls followed after a clear().
MaxWrites == 4

NEWLINE == 10
RETURN == 13
Chars == {NEWLINE, RETURN, 65}
TextSizes == 0..2
CursorXs == {3}
CursorYs == {5}

InitText ==
  /\ Constructed
  /\ ConstructedText
  /\ lastFrameStart = 0
  /\ lastFrameDurationMs = 0
  /\ sBuffer = fillScreen(BLACK)
  /\ pixelSafe \in BOOLEAN
  /\ call = NoDraw
  /\ pre = sBuffer
  /\ oob = FALSE

\* Arduboy::clear: ArduboyBase::clear() is fillScreen(BLACK).
clear ==
  /\ sBuffer' = fillScreen(BLACK)
  /\ oob' = FALSE
  /\ cursor_x' = 0
  /\ cursor_y' = 0
  /\ wr' = NoWrite
  /\ sinceClear' = TRUE
  /\ written' = 0
  /\ UNCHANGED <<textColor, textBackground, textSize, textWrap, pixelSafe,
                 call, pre, schedVars>>

setCursor(x, y) ==
  /\ cursor_x' = x
  /\ cursor_y' = y
  /\ wr' = NoWrite
  /\ sinceClear' = FALSE
  /\ UNCHANGED <<written, textColor, textBackground, textSize, textWrap,
                 gfxVars, schedVars>>

setTextSize(s) ==
  /\ textSize' = max(1, s)
  /\ wr' = NoWrite
  /\ sinceClear' = FALSE
  /\ UNCHANGED <<written, cursor_x, cursor_y, textColor, textBackground,
                 textWrap, gfxVars, schedVars>>

setTextWrap(w) ==
  /\ textWrap' = w
  /\ wr' = NoWrite
  /\ sinceClear' = FALSE
  /\ UNCHANGED <<written, cursor_x, cursor_y, textColor, textBackground,
                 textSize, gfxVars, schedVars>>

\* The cursor after write('\n') (lines 854-855).
newline(x, y, size) == [x |-> 0, y |-> y + (size * 8)]

wrapsPastWidth(x, size) == x > WIDTH

\* cursor_x > (WIDTH - textSize * 6) (line 862).
wraps(x, size) == x > (WIDTH - (size * 6))

\* The cursor after a character that is drawn (lines 861-868): advanced,
\* and then write('\n') if it wraps.
advance(x, y, size, wrap) ==
  LET x1 == x + (size * 6)
  IN  IF wrap /\ wraps(x1, size) THEN newline(x1, y, size)
                                 ELSE [x |-> x1, y |-> y]

write(c) ==
  /\ written < MaxWrites
  /\ written' = written + 1
  /\ wr' = [called |-> TRUE, c |-> c, x |-> cursor_x, y |-> cursor_y]
  /\ IF c = NEWLINE
       THEN /\ cursor_x' = newline(cursor_x, cursor_y, textSize).x
            /\ cursor_y' = newline(cursor_x, cursor_y, textSize).y
            /\ UNCHANGED <<sBuffer, oob>>
       ELSE IF c = RETURN
         THEN UNCHANGED <<cursor_x, cursor_y, sBuffer, oob>>
         ELSE LET m == drawChar(sBuffer, pixelSafe, cursor_x, cursor_y, c,
                                textColor, textBackground, textSize)
                  to == advance(cursor_x, cursor_y, textSize, textWrap)
              IN  /\ sBuffer' = m.buf
                  /\ oob' = m.oob
                  /\ cursor_x' = to.x
                  /\ cursor_y' = to.y
  /\ UNCHANGED <<textColor, textBackground, textSize, textWrap, sinceClear,
                 pixelSafe, call, pre, schedVars>>

NextText ==
  \/ clear
  \/ \E x \in CursorXs, y \in CursorYs : setCursor(x, y)
  \/ \E s \in TextSizes : setTextSize(s)
  \/ \E w \in BOOLEAN : setTextWrap(w)
  \/ \E c \in Chars : write(c)

SpecText == InitText /\ [][NextText]_vars

(***************************************************************************)
(* Frame scheduler properties.                                             *)
(***************************************************************************)
\* The last event that changed the schedule was a newFrame() that returned
\* true, and it and the true return before it ran at the present rate.
TwoSteadyFrames == nf.called /\ nf.ret /\ steady >= 2

\* C1 (as claimed): with a fixed rate and no accepted call more than one
\* frame period late, each call that returns true leaves nextFrameStart
\* exactly eachFrameMillis above the value the previous true call left.
C1_NoDrift ==
  (TwoSteadyFrames /\ ~overran)
    => nextFrameStart = nf.preNext + eachFrameMillis

\* C2: a call that returns true at 'now' leaves nextFrameStart >= now, and
\* after a stall (lastFrameStart + eachFrameMillis < now on entry) it leaves
\* nextFrameStart = now.
C2_CatchUpClamp ==
  (nf.called /\ nf.ret)
    => /\ nextFrameStart >= nf.now
       /\ (nf.preLast + nf.each < nf.now => nextFrameStart = nf.now)

\* C2 witness: a frame was accepted, then a stall, then the next call was
\* accepted and left nextFrameStart at its own 'now'.
C2_Witness ==
  /\ nf.called /\ nf.ret /\ accepted >= 2
  /\ nf.preLast + nf.each < nf.now
  /\ nf.preNext < nf.now
  /\ nextFrameStart = nf.now

\* C8: frameCount equals the number of true returns, less the one still
\* pending while post_render is set; and a call that returns false with
\* post_render clear changes none of frameCount, lastFrameDurationMs,
\* lastFrameStart and nextFrameStart.
C8_FrameAccounting ==
  /\ frameCount = (accepted - (IF post_render THEN 1 ELSE 0)) % U16
  /\ (nf.called /\ ~nf.ret /\ ~nf.prePost)
       => /\ frameCount = nf.preCount
          /\ lastFrameDurationMs = nf.preDur
          /\ lastFrameStart = nf.preLast
          /\ nextFrameStart = nf.preNext
  /\ (nf.called /\ nf.prePost) => frameCount = (nf.preCount + 1) % U16

\* C8 witness: two frames were accepted and counted, and the last call
\* returned false with nothing pending.
C8_Witness ==
  /\ accepted >= 2 /\ frameCount = accepted /\ ~post_render
  /\ nf.called /\ ~nf.ret /\ ~nf.prePost

\* C9 (as claimed): newFrame() never returns true less than
\* eachFrameMillis after the previous call that returned true.
C9_NoFastFrames ==
  TwoSteadyFrames => nf.now - nf.preLast >= eachFrameMillis

(***************************************************************************)
(* Drawing properties.  call is the last drawing call, pre the buffer it   *)
(* found, sBuffer the buffer it left, oob whether it wrote outside it.     *)
(***************************************************************************)
Cols == 0..(WIDTH - 1)
Lines == 0..(HEIGHT - 1)

\* C3 (as claimed): drawFastHLine(x, y, length, color) sets to color exactly
\* the pixels (i, y) with max(0, x) <= i < min(W, x + length), changes no
\* other bit and writes nothing outside the buffer; it does nothing when y
\* is off-screen or the clipped span is empty.
C3_HLineClipping ==
  call.op = "drawFastHLine"
    => /\ ~oob
       /\ \A px \in Cols, py \in Lines :
            getPixel(sBuffer, px, py) =
              IF /\ py = call.y
                 /\ max(0, call.x) <= px
                 /\ px < min(WIDTH, call.x + call.w)
                THEN call.color
                ELSE getPixel(pre, px, py)

\* C4: for (x, y) on the screen, drawPixel(x, y, c) leaves getPixel(x, y) = c
\* and changes no bit other than bit (y mod 8) of byte (y / 8) * W + x, so
\* every other pixel reads as before; the same call once more leaves the
\* buffer as it found it.
C4_PixelRoundTrip ==
  (call.op = "drawPixel" /\ InScreen(call.x, call.y))
    => /\ ~oob
       /\ getPixel(sBuffer, call.x, call.y) = call.color
       /\ \A i \in 0..(BufLen - 1), k \in 0..7 :
            (i # ((call.y \div 8) * WIDTH) + call.x \/ k # call.y % 8)
              => bit(sBuffer[i], k) = bit(pre[i], k)
       /\ \A px \in Cols, py \in Lines :
            (px # call.x \/ py # call.y)
              => getPixel(sBuffer, px, py) = getPixel(pre, px, py)
       /\ call.rep => sBuffer = pre

\* C4 witness: a pixel in the second band of a non-uniform buffer was
\* written twice with the same colour, and the first write changed it.
C4_Witness ==
  /\ call.op = "drawPixel" /\ call.rep
  /\ call.x > 0 /\ call.y > 8 /\ InScreen(call.x, call.y)
  /\ sBuffer = pre
  /\ getPixel(sBuffer, call.x, call.y) = call.color
  /\ getPixel(Pattern, call.x, call.y) # call.color
  /\ \E px \in Cols, py \in Lines :
       (px # call.x \/ py # call.y) /\ sBuffer[0] = Pattern[0]
       /\ getPixel(sBuffer, px, py) = getPixel(Pattern, px, py)
       /\ getPixel(sBuffer, px, py) # call.color

\* C5 (as claimed): fillRect(x, y, w, h, color) sets to color exactly the
\* pixels of [x, x+w) x [y, y+h) that are on the screen, changes no other
\* pixel and writes no byte outside the buffer, wherever the box lies.
C5_FillRectCoverage ==
  call.op = "fillRect"
    => /\ ~oob
       /\ \A px \in Cols, py \in Lines :
            getPixel(sBuffer, px, py) =
              IF /\ call.x <= px /\ px < call.x + call.w
                 /\ call.y <= py /\ py < call.y + call.h
                THEN (IF call.color # 0 THEN 1 ELSE 0)
                ELSE getPixel(pre, px, py)

\* The source byte of column i in the bitmap's row of bytes a.
C6_Source(a, i) == call.bitmap[(a * call.w) + i + 1]

\* C6: drawBitmap in OR mode onto a cleared buffer, h a multiple of 8: an
\* on-screen pixel (x+i, y+j) of the bitmap's box is ON iff bit (j mod 8) of
\* source byte (j / 8) * w + i is set, every other pixel is OFF, nothing is
\* written outside the buffer; when y is a multiple of 8 the covered bytes
\* equal the source bytes, and when y mod 8 = 3 a source byte whose two
\* bands are on the screen is (upper band >> 3) | (lower band << 5).
C6_BitmapPlacement ==
  (/\ call.op = "drawBitmap" /\ call.color = WHITE
   /\ pre = fillScreen(BLACK) /\ call.h % 8 = 0)
    => /\ ~oob
       /\ \A px \in Cols, py \in Lines :
            LET i == px - call.x
                j == py - call.y
            IN  getPixel(sBuffer, px, py) =
                  IF i >= 0 /\ i < call.w /\ j >= 0 /\ j < call.h
                    THEN bit(C6_Source(j \div 8, i), j % 8)
                    ELSE 0
       /\ \A a \in 0..((call.h \div 8) - 1), i \in 0..(call.w - 1) :
            LET col == call.x + i
                band == ((call.y - (call.y % 8)) \div 8) + a
            IN  /\ (call.y % 8 = 0 /\ col \in Cols /\ band \in 0..(BANDS - 1))
                     => sBuffer[(band * WIDTH) + col] = C6_Source(a, i)
                /\ (/\ call.y % 8 = 3 /\ col \in Cols
                    /\ band \in 0..(BANDS - 2))
                     \* the two parts share no bit: their OR is their sum
                     => (sBuffer[(band * WIDTH) + col] \div 8)
                        + u8(sBuffer[((band + 1) * WIDTH) + col] * 32)
                          = C6_Source(a, i)

\* C6 witness: a two-row bitmap was drawn at a negative y with offset 3,
\* partly off the top, and its second row of bytes is split across bands 0
\* and 1.
C6_Witness ==
  /\ call.op = "drawBitmap" /\ call.color = WHITE
  /\ pre = fillScreen(BLACK)
  /\ call.h = 16 /\ call.w = 2 /\ call.y = -5 /\ call.x = 1
  /\ sBuffer[1] = u8(C6_Source(1, 0) * 8)
  /\ sBuffer[WIDTH + 1] = C6_Source(1, 0) \div 32
  /\ sBuffer[1] # 0 /\ sBuffer[WIDTH + 1] # 0
  /\ sBuffer[0] = 0

\* The three vertices of the call lie on the line call.y, on the screen.
C7_OneLine ==
  /\ call.op = "fillTriangle"
  /\ call.y = call.y1 /\ call.y1 = call.y2
  /\ call.y \in Lines
  /\ {call.x, call.x1, call.x2} \subseteq Cols

\* C7: fillTriangle with three vertices on one line y of the screen sets to
\* color exactly the pixels (i, y) with min(x0, x1, x2) <= i <=
\* max(x0, x1, x2) and changes no other pixel, in whatever order the
\* vertices are given.
C7_DegenerateTriangle ==
  C7_OneLine
    => /\ ~oob
       /\ \A px \in Cols, py \in Lines :
            getPixel(sBuffer, px, py) =
              IF /\ py = call.y
                 /\ min(call.x, min(call.x1, call.x2)) <= px
                 /\ px <= max(call.x, max(call.x1, call.x2))
                THEN call.color
                ELSE getPixel(pre, px, py)

\* C7 witness: the vertices were given with the largest x first and the
\* smallest last, and the run changed the buffer.
C7_Witness ==
  /\ C7_OneLine
  /\ call.x > call.x1 /\ call.x1 > call.x2
  /\ call.y > 0
  /\ sBuffer # pre
  /\ getPixel(sBuffer, call.x, call.y) = call.color
  /\ getPixel(sBuffer, call.x2, call.y) = call.color

\* C10 (as claimed): the sorting step of fillTriangle leaves the three
\* (x, y) pairs a permutation of the vertices passed in, with
\* y0 <= y1 <= y2; so a triangle drawn on a cleared screen sets no pixel
\* outside the bounding box of its vertices, and the pixels it sets do not
\* depend on the order of the vertices.
C10_VertexSort ==
  call.op = "fillTriangle"
    => LET v == sortVertices(call.x, call.y, call.x1, call.y1, call.x2,
                             call.y2)
           in == <<<<call.x, call.y>>, <<call.x1, call.y1>>,
                   <<call.x2, call.y2>>>>
           out == <<<<v.x0, v.y0>>, <<v.x1, v.y1>>, <<v.x2, v.y2>>>>
       IN  /\ v.y0 <= v.y1 /\ v.y1 <= v.y2
           /\ \E p \in Permutations(1..3) : \A k \in 1..3 : out[k] = in[p[k]]
           /\ (pre = fillScreen(BLACK) /\ call.color = WHITE)
                => \A px \in Cols, py \in Lines :
                     getPixel(sBuffer, px, py) = 1
                       => /\ min(call.x, min(call.x1, call.x2)) <= px
                          /\ px <= max(call.x, max(call.x1, call.x2))
                          /\ min(call.y, min(call.y1, call.y2)) <= py
                          /\ py <= max(call.y, max(call.y1, call.y2))
           /\ sBuffer = fillTriangle(pre, call.x1, call.y1, call.x, call.y,
                                     call.x2, call.y2, call.color).buf

\* The pixel (px, py) belongs to a background cell of the glyph the call
\* drew: a cell whose font bit is 0, or one of the blank sixth column.
C11_BackgroundPixel(px, py) ==
  \E i \in 0..5, j \in 0..7 :
    /\ bit(glyphLine(call.c, i), j) = 0
    /\ px - (call.x + (i * call.size)) \in 0..(call.size - 1)
    /\ py - (call.y + (j * call.size)) \in 0..(call.size - 1)

\* C11 (as claimed): drawChar with color = bg, OFF or ON, skips every
\* background cell of the glyph: the pixels of those cells keep the value
\* they had before the call.
C11_BackgroundTransparent ==
  (call.op = "drawChar" /\ call.color = call.bg)
    => \A px \in Cols, py \in Lines :
         C11_BackgroundPixel(px, py)
           => getPixel(sBuffer, px, py) = getPixel(pre, px, py)

(***************************************************************************)
(* Text properties.                                                        *)
(***************************************************************************)
\* Wrap is on, the size s has 6*s <= W, and only write() has been called
\* since clear().
C12_Wrapping == sinceClear /\ textWrap /\ 6 * textSize <= WIDTH

\* C12: with wrap on and a size s with 6*s <= W, after any sequence of
\* write() calls from clear() the cursor x is a multiple of 6*s with
\* 0 <= x <= W - 6*s; a printable character advances x by 6*s, or, when
\* that passes W - 6*s, leaves x = 0 and y one line (8*s) lower; a newline
\* leaves x = 0 and y one line lower.
C12_CursorWrap ==
  C12_Wrapping
    => /\ cursor_x % (6 * textSize) = 0
       /\ 0 <= cursor_x
       /\ cursor_x <= WIDTH - (6 * textSize)
       /\ (wr.called /\ wr.c \in Glyphs)
            => IF wr.x + (6 * textSize) > WIDTH - (6 * textSize)
                 THEN cursor_x = 0 /\ cursor_y = wr.y + (8 * textSize)
                 ELSE cursor_x = wr.x + (6 * textSize) /\ cursor_y = wr.y
       /\ (wr.called /\ wr.c = NEWLINE)
            => cursor_x = 0 /\ cursor_y = wr.y + (8 * textSize)

\* C12 witness: at size 1 the second character of the second line was
\* written in the last cell of the line, and the cursor wrapped to the
\* third line.
C12_Witness ==
  /\ C12_Wrapping /\ textSize = 1
  /\ wr.called /\ wr.c \in Glyphs
  /\ wr.x = 6 /\ wr.y = 8
  /\ cursor_x = 0 /\ cursor_y = 16
  /\ sBuffer[WIDTH + 6] # 0

====
